---- MODULE Spec2Model ----
(***************************************************************************)
(* The task-coordination core of the agent platform: SwarmService (swarm,  *)
(* agent and task registries, the scheduler, its event handlers) and the   *)
(* part of AgentService that reacts to it.  Every handler is a pure        *)
(* operator on a record s of the two services' maps; an action applies one *)
(* handler to the current state.  A handler runs to completion before the  *)
(* next external call is served: scheduleTask holds no await, and the      *)
(* awaits between scheduleTask calls resolve as microtasks.                *)
(*                                                                         *)
(* Ids.  Map keys are uuids unless the caller supplies one; the model      *)
(* numbers agents and tasks in creation order, which is also the Map's     *)
(* iteration order.  0 stands for null / undefined.                        *)
(***************************************************************************)
EXTENDS Integers, Sequences, FiniteSets, TLC

VARIABLES swarms, agents, tasks, agentSpecs, taskSpecs, asAgents, activeTasks, executing, now

(* Bookkeeping.  recording and logging never change in a behaviour.        *)
(* recording is TRUE in the specifications that keep the agents' memory    *)
(* and counters and the tasks' timestamps, logging in those that keep the  *)
(* log of published task events; the other specifications project them    *)
(* away (no handler branches on any of them).                              *)
VARIABLES recording, logging, asMemory, shared, pushes, appended, asAppended, published, transitions

(* The observer's record of the swarms' shared memory: what each swarm was *)
(* created with, the updateSwarmMemory calls made, and what the last of    *)
(* them returned.                                                          *)
VARIABLES initialMemory, patches, returned

(* AgentService's message history of each agent it holds, and the          *)
(* observer's record of the messages sendAgentMessage accepted for each    *)
(* recipient.                                                              *)
VARIABLES messages, sent

(* Whether the last call ended in an exception: one it threw to its        *)
(* caller, or the rejection of a promise it did not wait for.              *)
VARIABLES threw

(* The scheduling passes in flight, in the order they resume: each is a    *)
(* checkPendingTasks or checkDependentTasks call suspended at the await    *)
(* after a scheduleTask call, with the tasks of its snapshot it has yet to *)
(* offer.                                                                  *)
VARIABLES passes

(* The event buses.  Every process (instance) runs one SwarmEventBus and    *)
(* one SwarmService, each with its own local emitter and its own pair of   *)
(* Redis connections on the channel swarm-events.  registered, publishes,  *)
(* calls and handled are the observer's record of what happened.           *)
VARIABLES initialized, isRedisConnected, subscriber, listeners, subscriptions, inbox, raised, registered, publishes, calls, handled

busVars == <<initialized, isRedisConnected, subscriber, listeners, subscriptions, inbox, raised, registered, publishes, calls, handled>>

coreVars == <<swarms, agents, tasks, agentSpecs, taskSpecs, asAgents, activeTasks, executing, now>>

bookVars == <<recording, logging, asMemory, shared, pushes, appended, asAppended, published, transitions, initialMemory, patches, returned, messages, sent, threw, passes>>

vars == <<coreVars, bookVars, busVars>>

(* ------------------------------ bounds --------------------------------- *)

MaxAgents == 2

MaxTasks == 2

MaxChain == 3

MaxSwarms == 2

MaxSwarmAgents == 2

MaxClock == 1

MaxDeps == 1

MaxAssigned == 1

MaxEvents == 6

MaxPushes == 2

MaxCompletions == 150

MaxInstances == 2

MaxRegistrations == 2

MaxPublishes == 2
(* updateSwarmMemory calls in a behaviour. *)
MaxPatches == 3
(* Messages sent to one agent. *)
MaxMessages == 52
(* Swarms in the specifications that create agents in swarms. *)
(* Scheduling passes in flight at once. *)
MaxPasses == 2

MaxRosterSwarms == 1
(* Values a key of a shared memory takes: 1..MaxValue. *)
MaxValue == 2

AgentIds == 1..MaxAgents

(* Task ids: the chain specification submits up to MaxChain tasks, the     *)
(* others up to MaxTasks; an id that is never submitted names a missing    *)
(* task.                                                                   *)
TaskIds == 1..MaxChain

SwarmIds == 1..MaxSwarms

RosterSwarmIds == 1..MaxRosterSwarms

Instances == 1..MaxInstances

(* A bus is <<instance, kind>>: kind "bus" is the instance's SwarmEventBus, *)
(* kind "svc" its SwarmService.                                            *)
Buses == Instances \X {"bus", "svc"}

(* Registrations are numbered as they are made: up to MaxRegistrations by  *)
(* callers, and the two that each SwarmService makes for itself.           *)
RegistrationIds == 1..(MaxRegistrations + 2 * MaxInstances)

PublishIds == 1..MaxPublishes

(* The shared memories and patches: objects over two keys. *)
Keys == {"k1", "k2"}

Memories == UNION {[D -> 1..MaxValue] : D \in SUBSET Keys}

(* ------------------------- program constants --------------------------- *)

DefaultPriority == 5

(* The length an agent's memory is cut back to. *)
MemoryCap == 100

(* The length an agent's message history is cut back to. *)
MessageCap == 50

TaskStatuses == {"pending", "assigned", "running", "completed", "failed", "cancelled"}

AgentStatuses == {"idle", "busy", "error"}

(* The statuses a caller of updateTaskStatus reports; pending and assigned *)
(* are written by submitTask and scheduleTask themselves.                  *)
UpdateStatuses == {"running", "completed", "failed", "cancelled"}

(* ------------------------------ helpers -------------------------------- *)

Range(f) == {f[i] : i \in DOMAIN f}

(* JavaScript `value || default` on an optional number: an optional is a   *)
(* sequence of length at most one; undefined and 0 are both falsy.         *)
JsOr(opt, default) == IF opt = <<>> \/ opt[1] = 0 THEN default ELSE opt[1]

NoSwarm == [status |-> "absent", agents |-> <<>>, agentCount |-> 0, sharedMemory |-> <<>>]

HasSwarm(s, sw) == sw \in SwarmIds /\ s.swarms[sw].status # "absent"

HasTask(s, t) == t \in 1..Len(s.tasks)

HasAgent(s, a) == a \in 1..Len(s.agents)

(* The two services' maps as one record. *)
State == [swarms |-> swarms, agents |-> agents, tasks |-> tasks, agentSpecs |-> agentSpecs, taskSpecs |-> taskSpecs, asAgents |-> asAgents, activeTasks |-> activeTasks, executing |-> executing,
          recording |-> recording, logging |-> logging, asMemory |-> asMemory, shared |-> shared, pushes |-> pushes, appended |-> appended, asAppended |-> asAppended, published |-> published, transitions |-> transitions,
          initialMemory |-> initialMemory, patches |-> patches, returned |-> returned, messages |-> messages, sent |-> sent,
          threw |-> FALSE, passes |-> passes]

(* array.slice(-n): the last n elements. *)
LastN(seq, n) == IF Len(seq) <= n THEN seq ELSE SubSeq(seq, Len(seq) - n + 1, Len(seq))

(* SwarmService.publishEvent of an event about task t, as a subscriber of  *)
(* the task events sees it; status is the status a task:updated carries.   *)
publishEvent(s, type, t, status) == IF s.logging THEN [s EXCEPT !.published = Append(@, [type |-> type, taskId |-> t, status |-> status])] ELSE s

(* A write of task.status, in the order the writes happen. *)
writeStatus(s, t, status) == IF s.logging THEN [s EXCEPT !.tasks[t].status = status, !.transitions = Append(@, [taskId |-> t, status |-> status])] ELSE [s EXCEPT !.tasks[t].status = status]

(* --------------------------- AgentService ------------------------------ *)

(* executeTask up to its first await (processTask): the task is recorded   *)
(* as active, the agent is busy and the call is in flight.                 *)
executeTaskStart(s, a, t) == [s EXCEPT !.activeTasks[t] = a, !.asAgents[a] = "busy", !.executing = @ \cup {<<t, a>>}]

(* agent.memory.push in executeTask, then the cut to the last MemoryCap    *)
(* entries.  While the two services' records of the agent hold the same    *)
(* array (shared), the push is seen through both; slice() gives this       *)
(* record an array of its own.                                             *)
asPushMemory(s, a, t) ==
  IF ~s.recording THEN s
  ELSE LET entry == [n |-> s.pushes + 1, taskId |-> t, by |-> "agent"]
           mine == Append(s.asMemory[a], entry)
           s1 == [s EXCEPT !.pushes = @ + 1, !.asMemory[a] = mine, !.asAppended[a] = Append(@, entry)]
           s2 == IF s.shared[a] THEN [s1 EXCEPT !.agents[a].memory = Append(@, entry), !.appended[a] = Append(@, entry)] ELSE s1
       IN IF Len(mine) > MemoryCap THEN [s2 EXCEPT !.asMemory[a] = LastN(mine, MemoryCap), !.shared[a] = FALSE] ELSE s2

(* executeTask after processTask has resolved: the agent object captured   *)
(* before the await is written back under its id.  The task handed over by *)
(* handleTaskAssigned is {id}, so it has no swarmTaskId and no event goes  *)
(* to SwarmService.                                                        *)
executeTaskFinish(s, a, t) == [asPushMemory(s, a, t) EXCEPT !.asAgents[a] = "idle", !.activeTasks[t] = 0, !.executing = @ \ {<<t, a>>}]

(* executeTask after processTask has rejected: the catch block.  Without  *)
(* a swarmTaskId no task:failed goes out, and SwarmService subscribes to   *)
(* none.                                                                   *)
executeTaskFail(s, a, t) == [s EXCEPT !.asAgents[a] = "error", !.activeTasks[t] = 0, !.executing = @ \ {<<t, a>>}]

(* handleTaskAssigned, the subscriber of task:assigned. *)
handleTaskAssigned(s, t, a) == IF s.asAgents[a] = "absent" THEN s ELSE executeTaskStart(s, a, t)

cancelTask(s, t) ==
  IF s.activeTasks[t] = 0 THEN s
  ELSE LET a == s.activeTasks[t]
           s1 == [s EXCEPT !.activeTasks[t] = 0]
       IN IF s1.asAgents[a] # "absent" THEN [s1 EXCEPT !.asAgents[a] = "idle"] ELSE s1

RECURSIVE cancelTasksOf(_, _, _)
cancelTasksOf(s, a, t) ==
  IF t > Len(s.activeTasks) THEN s
  ELSE cancelTasksOf(IF s.activeTasks[t] = a THEN cancelTask(s, t) ELSE s, a, t + 1)

(* AgentService.deleteAgent of an agent it holds. *)
deleteAgent(s, a) == [cancelTasksOf(s, a, 1) EXCEPT !.asAgents[a] = "absent", !.messages[a] = <<>>]

(* handleAgentMessage, the subscriber of agent:message: the message goes   *)
(* to the history of the recipient that AgentService holds, which is cut   *)
(* to its last MessageCap entries.                                         *)
handleAgentMessage(s, message) ==
  IF s.asAgents[message.to] = "absent" THEN s
  ELSE LET mine == Append(s.messages[message.to], message)
       IN [s EXCEPT !.messages[message.to] = IF Len(mine) > MessageCap THEN LastN(mine, MessageCap) ELSE mine]

(* --------------------------- SwarmService ------------------------------ *)

(* Mutant: the roster grows and the count does not. *)
createAgentUncounted(s, config) ==
  LET id == Len(s.agents) + 1
      agent == [status |-> "idle", currentTask |-> 0, priority |-> JsOr(config.priority, DefaultPriority), lastActive |-> now, capabilities |-> config.capabilities, swarmId |-> config.swarmId,
                tasksCompleted |-> 0, memory |-> <<>>]
      s1 == [s EXCEPT !.agents = Append(@, agent), !.agentSpecs = Append(@, config)]
  IN IF HasSwarm(s1, agent.swarmId) /\ id \notin Range(s1.swarms[agent.swarmId].agents)
     THEN [s1 EXCEPT !.swarms[agent.swarmId].agents = Append(@, id)]
     ELSE s1

createAgent(s, config) ==
  LET id == Len(s.agents) + 1
      agent == [status |-> "idle", currentTask |-> 0, priority |-> JsOr(config.priority, DefaultPriority), lastActive |-> now, capabilities |-> config.capabilities, swarmId |-> config.swarmId,
                tasksCompleted |-> 0, memory |-> <<>>]
      s1 == [s EXCEPT !.agents = Append(@, agent), !.agentSpecs = Append(@, config)]
  IN IF HasSwarm(s1, agent.swarmId) /\ id \notin Range(s1.swarms[agent.swarmId].agents)
     THEN [s1 EXCEPT !.swarms[agent.swarmId].agents = Append(@, id), !.swarms[agent.swarmId].agentCount = @ + 1]
     ELSE s1

RECURSIVE createSwarmAgents(_, _, _)
createSwarmAgents(s, sw, specs) ==
  IF specs = <<>> THEN s
  ELSE LET s1 == createAgent(s, [Head(specs) EXCEPT !.swarmId = sw])
           id == Len(s1.agents)
           s2 == [s1 EXCEPT !.swarms[sw].agents = Append(@, id), !.swarms[sw].agentCount = @ + 1]
       IN createSwarmAgents(s2, sw, Tail(specs))

createSwarm(s, sw, specs, initial) ==
  LET s1 == [s EXCEPT !.swarms[sw] = [status |-> "initializing", agents |-> <<>>, agentCount |-> 0, sharedMemory |-> initial], !.initialMemory[sw] = initial]
      s2 == createSwarmAgents(s1, sw, specs)
  IN [s2 EXCEPT !.swarms[sw].status = "ready"]

(* Mutant: the patch takes the place of the memory. *)
updateSwarmMemoryReplaced(s, sw, updates) ==
  IF ~HasSwarm(s, sw) THEN s
  ELSE LET s1 == [s EXCEPT !.swarms[sw].sharedMemory = updates, !.patches = Append(@, [swarmId |-> sw, updates |-> updates])]
           s2 == publishEvent(s1, "swarm:memory_updated", 0, "")
       IN [s2 EXCEPT !.returned = s2.swarms[sw].sharedMemory]

(* SwarmService.updateSwarmMemory(swarmId, updates).  An object is a        *)
(* function from its keys; {...memory, ...updates} has the keys of both    *)
(* and the value of updates where both have one.  An unknown swarm id       *)
(* throws before anything is written.                                      *)
updateSwarmMemory(s, sw, updates) ==
  IF ~HasSwarm(s, sw) THEN s
  ELSE LET memory == s.swarms[sw].sharedMemory
           merged == [k \in DOMAIN memory \cup DOMAIN updates |-> IF k \in DOMAIN updates THEN updates[k] ELSE memory[k]]
           s1 == [s EXCEPT !.swarms[sw].sharedMemory = merged, !.patches = Append(@, [swarmId |-> sw, updates |-> updates])]
           s2 == publishEvent(s1, "swarm:memory_updated", 0, "")
       IN [s2 EXCEPT !.returned = s2.swarms[sw].sharedMemory]

(* SwarmService.sendAgentMessage: both ids must name agents of             *)
(* SwarmService, else it throws; the message goes out as agent:message.    *)
sendAgentMessage(s, from, to) ==
  IF ~HasAgent(s, from) \/ ~HasAgent(s, to) THEN s
  ELSE LET message == [n |-> Len(s.sent[to]) + 1, from |-> from, to |-> to]
           s1 == publishEvent([s EXCEPT !.sent[to] = Append(@, message)], "agent:message", 0, "")
       IN handleAgentMessage(s1, message)

getAgents(s, sw) == {a \in 1..Len(s.agents) : s.agents[a].swarmId = sw}

(* The records createSubtask makes are the ones with a parentTaskId; they  *)
(* have no dependencies and no subtasks property, so task.dependencies     *)
(* .length, task.dependencies.includes and task.subtasks.push throw a      *)
(* TypeError on them.                                                      *)
IsSubtask(s, t) == s.tasks[t].parentTaskId # 0

(* Mutant: a dependency that names no task does not count as unfinished. *)
unfinishedDependenciesKnownOnly(s, t) == {d \in s.tasks[t].dependencies : HasTask(s, d) /\ s.tasks[d].status # "completed"}

(* The dependencies of task t that are missing or not completed. *)
unfinishedDependencies(s, t) == {d \in s.tasks[t].dependencies : ~HasTask(s, d) \/ s.tasks[d].status # "completed"}

(* The filter of scheduleTask: an optional requiredCapabilities on the     *)
(* task record is a sequence of length at most one.                        *)
IsCandidate(s, t, a) ==
  LET task == s.tasks[t]
      agent == s.agents[a]
  IN /\ ~(task.swarmId # 0 /\ agent.swarmId # task.swarmId)
     /\ agent.status = "idle"
     /\ (task.requiredCapabilities # <<>> => task.requiredCapabilities[1] \subseteq agent.capabilities)

candidateAgents(s, t) == {a \in 1..Len(s.agents) : IsCandidate(s, t, a)}

(* The sort comparator: negative when x goes before y. *)
CompareAgents(s, x, y) ==
  IF s.agents[x].priority # s.agents[y].priority
  THEN s.agents[y].priority - s.agents[x].priority
  ELSE s.agents[x].lastActive - s.agents[y].lastActive

(* candidateAgents[0] after the stable sort: ties keep Map order. *)
FirstCandidate(s, cands) == CHOOSE x \in cands : \A y \in cands \ {x} : CompareAgents(s, x, y) < 0 \/ (CompareAgents(s, x, y) = 0 /\ x < y)

(* scheduleTask: the state it leaves and the agent it returns (0: null). *)
scheduleResult(s, t) ==
  IF ~HasTask(s, t) THEN [s |-> s, agent |-> 0]
  ELSE IF IsSubtask(s, t) THEN [s |-> [s EXCEPT !.threw = TRUE], agent |-> 0]
  ELSE IF s.tasks[t].dependencies # {} /\ unfinishedDependencies(s, t) # {} THEN [s |-> s, agent |-> 0]
  ELSE LET cands == candidateAgents(s, t)
       IN IF cands = {} THEN [s |-> s, agent |-> 0]
          ELSE LET a == FirstCandidate(s, cands)
                   s1 == [s EXCEPT !.agents[a].status = "busy", !.agents[a].currentTask = t, !.agents[a].lastActive = now]
                   s2 == [writeStatus(s1, t, "assigned") EXCEPT !.tasks[t].assignedAgents = Append(@, a)]
                   s3 == publishEvent(s2, "task:assigned", t, "assigned")
               IN [s |-> handleTaskAssigned(s3, t, a), agent |-> a]

scheduleTask(s, t) == scheduleResult(s, t).s

(* Mutant: the task is announced once scheduling has had its turn. *)
submitTaskAnnouncedLast(s, config) ==
  LET id == Len(s.tasks) + 1
      task == [status |-> "pending", priority |-> JsOr(config.priority, DefaultPriority), swarmId |-> config.swarmId, assignedAgents |-> <<>>, dependencies |-> config.dependencies, requiredCapabilities |-> <<>>,
               completedAt |-> <<>>, failedAt |-> <<>>, parentTaskId |-> 0, subtasks |-> <<>>]
      s1 == [s EXCEPT !.tasks = Append(@, task), !.taskSpecs = Append(@, config)]
  IN publishEvent(scheduleTask(writeStatus(s1, id, "pending"), id), "task:created", id, "pending")

submitTask(s, config) ==
  LET id == Len(s.tasks) + 1
      task == [status |-> "pending", priority |-> JsOr(config.priority, DefaultPriority), swarmId |-> config.swarmId, assignedAgents |-> <<>>, dependencies |-> config.dependencies, requiredCapabilities |-> <<>>,
               completedAt |-> <<>>, failedAt |-> <<>>, parentTaskId |-> 0, subtasks |-> <<>>]
      s1 == [s EXCEPT !.tasks = Append(@, task), !.taskSpecs = Append(@, config)]
      s2 == publishEvent(writeStatus(s1, id, "pending"), "task:created", id, "pending")
  IN scheduleTask(s2, id)

RECURSIVE scheduleAll(_, _)
scheduleAll(s, list) == IF list = <<>> \/ s.threw THEN s ELSE scheduleAll(scheduleTask(s, Head(list)), Tail(list))

(* Array.prototype.sort is stable: equal priorities keep Map order. *)
RECURSIVE SortByPriority(_, _)
SortByPriority(s, set) ==
  IF set = {} THEN <<>>
  ELSE LET first == CHOOSE x \in set : \A y \in set \ {x} : s.tasks[x].priority > s.tasks[y].priority \/ (s.tasks[x].priority = s.tasks[y].priority /\ x < y)
       IN <<first>> \o SortByPriority(s, set \ {first})

(* Map order: the order of insertion. *)
RECURSIVE SeqOfSet(_)
SeqOfSet(set) == IF set = {} THEN <<>> ELSE LET m == CHOOSE x \in set : \A y \in set : x <= y IN <<m>> \o SeqOfSet(set \ {m})

(* Mutant: the sweep takes the pending tasks in Map order. *)
pendingTasksUnsorted(s) == SeqOfSet({t \in 1..Len(s.tasks) : s.tasks[t].status = "pending"})

pendingTasks(s) == SortByPriority(s, {t \in 1..Len(s.tasks) : s.tasks[t].status = "pending"})

checkPendingTasks(s) == scheduleAll(s, pendingTasks(s))

dependentTasks(s, c) == SeqOfSet({t \in 1..Len(s.tasks) : c \in s.tasks[t].dependencies /\ s.tasks[t].status = "pending"})

RECURSIVE scheduleDependents(_, _)
scheduleDependents(s, list) ==
  IF list = <<>> THEN s
  ELSE LET s1 == IF unfinishedDependencies(s, Head(list)) = {} THEN scheduleTask(s, Head(list)) ELSE s
       IN scheduleDependents(s1, Tail(list))

checkDependentTasks(s, c) ==
  IF \E t \in 1..Len(s.tasks) : IsSubtask(s, t) THEN [s EXCEPT !.threw = TRUE]
  ELSE scheduleDependents(s, dependentTasks(s, c))

(* A pass runs on from where it is: checkDependentTasks steps over the     *)
(* tasks of its snapshot that still wait for a dependency; the next task   *)
(* is handed to scheduleTask, which runs to its end within the call, and   *)
(* the pass is suspended at the await with the rest of its snapshot.       *)
RECURSIVE advance(_, _, _)
advance(s, kind, list) ==
  IF list = <<>> THEN [s |-> s, rest |-> <<>>]
  ELSE IF kind = "dependents" /\ unfinishedDependencies(s, Head(list)) # {} THEN advance(s, kind, Tail(list))
  ELSE [s |-> scheduleTask(s, Head(list)), rest |-> Tail(list)]

(* The pass joins the passes in flight, unless its snapshot is used up. *)
suspend(r, kind) == IF r.rest = <<>> THEN r.s ELSE [r.s EXCEPT !.passes = Append(@, [kind |-> kind, rest |-> r.rest])]

(* checkPendingTasks up to its first await. *)
startPendingTasks(s) == suspend(advance(s, "pending", pendingTasks(s)), "pending")

(* checkDependentTasks up to its first await. *)
startDependentTasks(s, c) == suspend(advance(s, "dependents", dependentTasks(s, c)), "dependents")

(* The pass that has waited longest resumes, up to its next await. *)
resumePass(s) ==
  LET pass == Head(s.passes)
  IN suspend(advance([s EXCEPT !.passes = Tail(@)], pass.kind, pass.rest), pass.kind)

(* SwarmService.createSubtask(parentTaskId, config). *)
createSubtask(s, parent, config) ==
  IF ~HasTask(s, parent) THEN [s EXCEPT !.threw = TRUE]
  ELSE LET id == Len(s.tasks) + 1
           subtask == [status |-> "pending", priority |-> JsOr(config.priority, s.tasks[parent].priority), swarmId |-> s.tasks[parent].swarmId, assignedAgents |-> <<>>, dependencies |-> {},
                       requiredCapabilities |-> <<>>, completedAt |-> <<>>, failedAt |-> <<>>, parentTaskId |-> parent, subtasks |-> <<>>]
           s1 == [s EXCEPT !.tasks = Append(@, subtask), !.taskSpecs = Append(@, config)]
           s2 == writeStatus(s1, id, "pending")
       IN IF IsSubtask(s2, parent) THEN [s2 EXCEPT !.threw = TRUE]
          ELSE scheduleTask(publishEvent([s2 EXCEPT !.tasks[parent].subtasks = Append(@, id)], "subtask:created", id, "pending"), id)

(* The loop over the assignedAgents of a failed task. *)
RECURSIVE releaseAgents(_, _)
releaseAgents(s, list) ==
  IF list = <<>> THEN s
  ELSE LET a == Head(list)
           s1 == IF HasAgent(s, a) THEN [s EXCEPT !.agents[a].status = "idle", !.agents[a].currentTask = 0, !.agents[a].lastActive = now] ELSE s
       IN releaseAgents(s1, Tail(list))

(* agent.memory.push in updateTaskStatus, then the cut to the last         *)
(* MemoryCap entries.                                                      *)
pushMemory(s, a, t) ==
  IF ~s.recording THEN s
  ELSE LET entry == [n |-> s.pushes + 1, taskId |-> t, by |-> "swarm"]
           mine == Append(s.agents[a].memory, entry)
           s1 == [s EXCEPT !.pushes = @ + 1, !.agents[a].memory = mine, !.appended[a] = Append(@, entry), !.agents[a].tasksCompleted = @ + 1]
           s2 == IF s.shared[a] THEN [s1 EXCEPT !.asMemory[a] = Append(@, entry), !.asAppended[a] = Append(@, entry)] ELSE s1
       IN IF Len(mine) > MemoryCap THEN [s2 EXCEPT !.agents[a].memory = LastN(mine, MemoryCap), !.shared[a] = FALSE] ELSE s2

(* The loop over task.assignedAgents of a completed task t. *)
RECURSIVE completeAgents(_, _, _)
completeAgents(s, list, t) ==
  IF list = <<>> THEN s
  ELSE LET a == Head(list)
           s1 == IF HasAgent(s, a) THEN pushMemory([s EXCEPT !.agents[a].status = "idle", !.agents[a].currentTask = 0, !.agents[a].lastActive = now], a, t) ELSE s
       IN completeAgents(s1, Tail(list), t)

(* task.completedAt / task.failedAt = new Date(). *)
stamp(s, t, status) ==
  IF ~s.recording THEN s
  ELSE IF status = "completed" THEN [s EXCEPT !.tasks[t].completedAt = <<now>>]
  ELSE IF status = "failed" THEN [s EXCEPT !.tasks[t].failedAt = <<now>>]
  ELSE s

(* Mutant: a failure is recorded on the agents like a completion. *)
updateTaskStatusFailureRecorded(s, t, status) ==
  IF ~HasTask(s, t) THEN s
  ELSE LET s1 == stamp(writeStatus(s, t, status), t, status)
           s2 == IF status = "completed" THEN checkDependentTasks(completeAgents(s1, s1.tasks[t].assignedAgents, t), t)
                 ELSE IF status = "failed" THEN completeAgents(s1, s1.tasks[t].assignedAgents, t)
                 ELSE s1
       IN publishEvent(s2, "task:updated", t, status)

(* Mutant: the dependents are offered before the agents are released. *)
updateTaskStatusRecheckFirst(s, t, status) ==
  IF ~HasTask(s, t) THEN s
  ELSE LET s1 == stamp(writeStatus(s, t, status), t, status)
           s2 == IF status = "completed" THEN completeAgents(checkDependentTasks(s1, t), s1.tasks[t].assignedAgents, t)
                 ELSE IF status = "failed" THEN releaseAgents(s1, s1.tasks[t].assignedAgents)
                 ELSE s1
       IN publishEvent(s2, "task:updated", t, status)

updateTaskStatus(s, t, status) ==
  IF ~HasTask(s, t) THEN s
  ELSE LET s1 == stamp(writeStatus(s, t, status), t, status)
           s2 == IF status = "completed" THEN checkDependentTasks(completeAgents(s1, s1.tasks[t].assignedAgents, t), t)
                 ELSE IF status = "failed" THEN releaseAgents(s1, s1.tasks[t].assignedAgents)
                 ELSE s1
       IN publishEvent(s2, "task:updated", t, status)

(* updateTaskStatus(t, {status: 'completed'}) up to its return: its        *)
(* checkDependentTasks call is not awaited.                                *)
completeTask(s, t) ==
  LET s1 == stamp(writeStatus(s, t, "completed"), t, "completed")
  IN publishEvent(startDependentTasks(completeAgents(s1, s1.tasks[t].assignedAgents, t), t), "task:updated", t, "completed")

(* The subscriber of agent:status_changed. *)
onAgentStatusChanged(s, a, status) ==
  IF ~HasAgent(s, a) THEN s
  ELSE LET s1 == [s EXCEPT !.agents[a].status = status, !.agents[a].lastActive = now]
       IN IF status = "idle" THEN checkPendingTasks(s1) ELSE s1

(* ------------------------------ actions -------------------------------- *)

(* AgentService.createAgent with a swarmId: the agent is held by both      *)
(* services under one id.                                                  *)
asCreateAgent(s, config) ==
  LET s1 == createAgent(s, config)
  IN [s1 EXCEPT !.asAgents[Len(s1.agents)] = "idle", !.shared[Len(s1.agents)] = TRUE]

(* AgentService.updateAgent: an optional new status, then the agent's      *)
(* status goes out as agent:status_changed.                                *)
updateAgent(s, a, update) ==
  LET s1 == IF update = <<>> THEN s ELSE [s EXCEPT !.asAgents[a] = update[1]]
  IN onAgentStatusChanged(s1, a, s1.asAgents[a])

(* Within the bounds: the scheduler appends to assignedAgents on every      *)
(* assignment and nothing ever shortens the list.                          *)
Bounded(s) == \A t \in 1..Len(s.tasks) : Len(s.tasks[t].assignedAgents) <= MaxAssigned

(* The state a call leaves behind. *)
Write(s) ==
  /\ swarms' = s.swarms
  /\ agents' = s.agents
  /\ tasks' = s.tasks
  /\ agentSpecs' = s.agentSpecs
  /\ taskSpecs' = s.taskSpecs
  /\ asAgents' = s.asAgents
  /\ activeTasks' = s.activeTasks
  /\ executing' = s.executing
  /\ now' = now
  /\ recording' = s.recording
  /\ logging' = s.logging
  /\ asMemory' = s.asMemory
  /\ shared' = s.shared
  /\ pushes' = s.pushes
  /\ appended' = s.appended
  /\ asAppended' = s.asAppended
  /\ published' = s.published
  /\ transitions' = s.transitions
  /\ initialMemory' = s.initialMemory
  /\ patches' = s.patches
  /\ returned' = s.returned
  /\ messages' = s.messages
  /\ sent' = s.sent
  /\ threw' = s.threw
  /\ passes' = s.passes
  /\ UNCHANGED busVars

Apply(s) == Bounded(s) /\ Write(s)

(* Both services as constructed. *)
Constructed ==
  /\ swarms = [sw \in SwarmIds |-> NoSwarm]
  /\ agents = <<>>
  /\ tasks = <<>>
  /\ agentSpecs = <<>>
  /\ taskSpecs = <<>>
  /\ asAgents = [a \in AgentIds |-> "absent"]
  /\ activeTasks = [t \in 1..MaxCompletions |-> 0]
  /\ executing = {}
  /\ now = 0
  /\ asMemory = [a \in AgentIds |-> <<>>]
  /\ shared = [a \in AgentIds |-> FALSE]
  /\ pushes = 0
  /\ appended = [a \in AgentIds |-> <<>>]
  /\ asAppended = [a \in AgentIds |-> <<>>]
  /\ published = <<>>
  /\ transitions = <<>>
  /\ initialMemory = [sw \in SwarmIds |-> <<>>]
  /\ patches = <<>>
  /\ returned = <<>>
  /\ messages = [a \in AgentIds |-> <<>>]
  /\ sent = [a \in AgentIds |-> <<>>]
  /\ threw = FALSE
  /\ passes = <<>>
  /\ initialized = [b \in Buses |-> FALSE]
  /\ isRedisConnected = [b \in Buses |-> FALSE]
  /\ subscriber = [b \in Buses |-> FALSE]
  /\ listeners = [b \in Buses |-> <<>>]
  /\ subscriptions = [b \in Buses |-> {}]
  /\ inbox = [b \in Buses |-> <<>>]
  /\ raised = FALSE
  /\ registered = <<>>
  /\ publishes = <<>>
  /\ calls = [rc \in RegistrationIds \X PublishIds |-> 0]
  /\ handled = {}

Init == Constructed /\ recording = FALSE /\ logging = FALSE

InitRecording == Constructed /\ recording = TRUE /\ logging = FALSE

InitLogging == Constructed /\ recording = FALSE /\ logging = TRUE

(* Time passes between two calls. *)
Tick == now < MaxClock /\ now' = now + 1 /\ UNCHANGED <<swarms, agents, tasks, agentSpecs, taskSpecs, asAgents, activeTasks, executing, bookVars, busVars>>

CreateSwarm(sw, specs, initial) == ~HasSwarm(State, sw) /\ Len(agents) + Len(specs) <= MaxAgents /\ Apply(createSwarm(State, sw, specs, initial))

CreateSubtask(parent, config) == HasTask(State, parent) /\ Apply(createSubtask(State, parent, config))

SendAgentMessage(from, to) == HasAgent(State, from) /\ HasAgent(State, to) /\ Apply(sendAgentMessage(State, from, to))

UpdateSwarmMemory(sw, updates) == Apply(updateSwarmMemory(State, sw, updates))

CreateAgent(config) == Len(agents) < MaxAgents /\ Apply(createAgent(State, config))

SubmitTask(config) == Apply(submitTask(State, config))

ScheduleTask(t) == Apply(scheduleTask(State, t))

UpdateTaskStatus(t, status) == HasTask(State, t) /\ Apply(updateTaskStatus(State, t, status))

AgentStatusChanged(a, status) == HasAgent(State, a) /\ Apply(onAgentStatusChanged(State, a, status))

CheckPendingTasks == Apply(checkPendingTasks(State))

AsCreateAgent(config) == Len(agents) < MaxAgents /\ config.swarmId # 0 /\ Apply(asCreateAgent(State, config))

UpdateAgent(a, update) == asAgents[a] # "absent" /\ Apply(updateAgent(State, a, update))

DeleteAgent(a) == asAgents[a] # "absent" /\ Apply(deleteAgent(State, a))

ExecuteTaskFinish(a, t) == <<t, a>> \in executing /\ Apply(executeTaskFinish(State, a, t))

ExecuteTaskFail(a, t) == <<t, a>> \in executing /\ Apply(executeTaskFail(State, a, t))

StartPendingTasks == Len(passes) < MaxPasses /\ Write(startPendingTasks(State))

CompleteTask(t) == HasTask(State, t) /\ Len(passes) < MaxPasses /\ Write(completeTask(State, t))

ResumePass == passes # <<>> /\ Write(resumePass(State))

(* ----------------------------- event buses ----------------------------- *)

(* The types callers subscribe to and publish: the pattern string of the   *)
(* transport layer and a concrete type it is meant to cover.               *)
EventTypes == {"swarm:*", "swarm:created"}

Handlers == {"h1", "h2"}

(* this.instanceId: a nanoid in SwarmEventBus, never assigned in           *)
(* SwarmService (0: undefined).                                            *)
instanceId(b) == IF b[2] = "bus" THEN b[1] ELSE 0

(* sourceInstanceId of the event a bus puts on the channel: SwarmService's *)
(* event object has no such field.                                         *)
sourceInstanceId(b) == IF b[2] = "bus" THEN b[1] ELSE 0

Hub == [initialized |-> initialized, isRedisConnected |-> isRedisConnected, subscriber |-> subscriber, listeners |-> listeners, subscriptions |-> subscriptions, inbox |-> inbox, raised |-> raised,
        registered |-> registered, publishes |-> publishes, calls |-> calls, handled |-> handled]

(* eventemitter3 on(type, fn): one more listener at the end of the list.   *)
(* Every registration is numbered as it is made.                           *)
on(h, b, type, fn) ==
  LET id == Len(h.registered) + 1
  IN [h EXCEPT !.listeners[b] = Append(@, [id |-> id, type |-> type, fn |-> fn]), !.registered = Append(@, [bus |-> b, type |-> type, fn |-> fn])]

(* eventemitter3 off(type, fn): every listener of that type with that      *)
(* function goes.                                                          *)
off(h, b, type, fn) ==
  LET Keep(l) == ~(l.type = type /\ l.fn = fn)
  IN [h EXCEPT !.listeners[b] = SelectSeq(@, Keep)]

(* Mutant: a listener registered under swarm:* also gets the swarm events. *)
listenersOfPattern(ls, type) ==
  LET Covers(l) == l.type = type \/ (l.type = "swarm:*" /\ type \in {"swarm:created", "swarm:broadcast", "swarm:memory_updated"})
  IN SelectSeq(ls, Covers)

(* The listeners emit(type, data) calls, in order: those registered under  *)
(* the identical string.                                                   *)
listenersOf(ls, type) ==
  LET Same(l) == l.type = type
  IN SelectSeq(ls, Same)

(* eventemitter3 emit(type, data) of event number e. *)
emit(h, b, type, e) ==
  LET called == {l.id : l \in Range(listenersOf(h.listeners[b], type))}
  IN [h EXCEPT !.calls = [rc \in DOMAIN @ |-> IF rc[1] \in called /\ rc[2] = e THEN @[rc] + 1 ELSE @[rc]]]

(* SwarmService.registerEventHandlers. *)
registerEventHandlers(h, b) == on(on(h, b, "agent:status_changed", "core"), b, "task:completed", "core")

(* initialize(redisUrl): url is "none" (no url), "ok" or "fail" (the       *)
(* connection fails).  SwarmService registers its handlers at the end of   *)
(* the try block.                                                          *)
initialize(h, b, url) ==
  LET h1 == [h EXCEPT !.initialized[b] = TRUE]
      h2 == IF url = "ok" THEN [h1 EXCEPT !.isRedisConnected[b] = TRUE, !.subscriber[b] = TRUE] ELSE h1
  IN IF b[2] = "svc" /\ url # "fail" THEN registerEventHandlers(h2, b) ELSE h2

(* SwarmEventBus.subscribe / SwarmService.subscribeToEvent. *)
subscribe(h, b, type, fn) ==
  LET h1 == on(h, b, type, fn)
  IN IF b[2] = "bus" THEN [h1 EXCEPT !.subscriptions[b] = @ \cup {<<type, fn>>}] ELSE h1

(* The function subscribe returned for (type, fn): SwarmEventBus.unsubscribe *)
(* or, in SwarmService, eventBus.off.                                      *)
unsubscribe(h, b, type, fn) ==
  LET h1 == off(h, b, type, fn)
  IN IF b[2] = "bus" THEN [h1 EXCEPT !.subscriptions[b] = @ \ {<<type, fn>>}] ELSE h1

(* Redis PUBLISH: every subscriber connection of the channel gets a copy. *)
broadcast(h, event) == [h EXCEPT !.inbox = [c \in Buses |-> IF h.subscriber[c] THEN Append(@[c], event) ELSE @[c]]]

(* Mutant: the channel comes first, and its rejection reaches the caller. *)
publishChannelFirst(h, b, type, outcome) ==
  LET e == Len(h.publishes) + 1
      h1 == [h EXCEPT !.publishes = Append(@, [bus |-> b, type |-> type, outcome |-> outcome, sent |-> h.isRedisConnected[b],
                                                 listeners |-> {l.id : l \in Range(listenersOf(h.listeners[b], type))}])]
  IN IF h.isRedisConnected[b] /\ outcome = "fail" THEN [h1 EXCEPT !.raised = TRUE]
     ELSE [emit(IF h.isRedisConnected[b] THEN broadcast(h1, [id |-> e, type |-> type, sourceInstanceId |-> sourceInstanceId(b)]) ELSE h1, b, type, e) EXCEPT !.raised = FALSE]

(* SwarmEventBus.publish / SwarmService.publishEvent of the publish number *)
(* e; outcome tells whether the channel takes the message ("ok") or the    *)
(* Redis publish is rejected ("fail").  Both catch the rejection.          *)
publish(h, b, type, outcome) ==
  LET e == Len(h.publishes) + 1
      h1 == [h EXCEPT !.publishes = Append(@, [bus |-> b, type |-> type, outcome |-> outcome, sent |-> h.isRedisConnected[b],
                                                 listeners |-> {l.id : l \in Range(listenersOf(h.listeners[b], type))}])]
      h2 == emit(h1, b, type, e)
      h3 == IF h.isRedisConnected[b] /\ outcome = "ok" THEN broadcast(h2, [id |-> e, type |-> type, sourceInstanceId |-> sourceInstanceId(b)]) ELSE h2
  IN [h3 EXCEPT !.raised = FALSE]

(* Mutant: no test of the message's origin. *)
handleRedisMessageAnyOrigin(h, b) ==
  LET event == Head(h.inbox[b])
  IN emit([h EXCEPT !.inbox[b] = Tail(@), !.handled = @ \cup {<<b, event.id>>}], b, event.type, event.id)

(* SwarmEventBus.handleRedisMessage / SwarmService.handleRedisEvent on the *)
(* first message waiting on the bus's subscriber connection.               *)
handleRedisMessage(h, b) ==
  LET event == Head(h.inbox[b])
      h1 == [h EXCEPT !.inbox[b] = Tail(@), !.handled = @ \cup {<<b, event.id>>}]
  IN IF event.sourceInstanceId = instanceId(b) THEN h1 ELSE emit(h1, b, event.type, event.id)

ApplyHub(h) ==
  /\ initialized' = h.initialized
  /\ isRedisConnected' = h.isRedisConnected
  /\ subscriber' = h.subscriber
  /\ listeners' = h.listeners
  /\ subscriptions' = h.subscriptions
  /\ inbox' = h.inbox
  /\ raised' = h.raised
  /\ registered' = h.registered
  /\ publishes' = h.publishes
  /\ calls' = h.calls
  /\ handled' = h.handled
  /\ UNCHANGED <<coreVars, bookVars>>

(* A process starts: eventBus.initialize(REDIS_URL), then                  *)
(* swarmService.initialize(REDIS_URL).                                     *)
Start(i, url) == ~initialized[<<i, "bus">>] /\ ApplyHub(initialize(initialize(Hub, <<i, "bus">>, url), <<i, "svc">>, url))

Subscribe(b, type, fn) == initialized[b] /\ Cardinality({r \in 1..Len(registered) : registered[r].fn # "core"}) < MaxRegistrations /\ ApplyHub(subscribe(Hub, b, type, fn))

(* A call of the function that registration r got back from subscribe. *)
Unsubscribe(r) == r \in 1..Len(registered) /\ registered[r].fn # "core" /\ ApplyHub(unsubscribe(Hub, registered[r].bus, registered[r].type, registered[r].fn))

(* The outcome of the Redis publish is an input only when one is made. *)
Publish(b, type, outcome) == initialized[b] /\ Len(publishes) < MaxPublishes /\ (isRedisConnected[b] \/ outcome = "ok") /\ ApplyHub(publish(Hub, b, type, outcome))

Deliver(b) == inbox[b] # <<>> /\ ApplyHub(handleRedisMessage(Hub, b))

(* ------------------------------ inputs --------------------------------- *)

DependencySets == {d \in SUBSET TaskIds : Cardinality(d) <= MaxDeps}

(* Agents and tasks that differ in nothing the scheduler reads. *)
PlainAgent == [priority |-> <<>>, capabilities |-> {}, swarmId |-> 0]

PlainTask == [priority |-> <<>>, swarmId |-> 0, dependencies |-> {}, requiredCapabilities |-> <<>>]

PlainTasks == [priority : {<<>>}, swarmId : {0}, dependencies : DependencySets, requiredCapabilities : {<<>>}]

(* Agents and tasks with priorities and capabilities. *)
MatchAgents == [priority : {<<>>, <<0>>, <<3>>, <<8>>}, capabilities : {{}, {"x"}}, swarmId : {0}]

MatchTasks == [priority : {<<>>}, swarmId : {0}, dependencies : {{}}, requiredCapabilities : {<<>>, <<{"x"}>>}]

(* Agents and tasks in and out of swarms. *)
SwarmAgents == [priority : {<<>>}, capabilities : {{}}, swarmId : {0} \cup RosterSwarmIds]

SwarmTasks == [priority : {<<>>}, swarmId : {0} \cup RosterSwarmIds, dependencies : {{}}, requiredCapabilities : {<<>>}]

SwarmRosters == UNION {[1..n -> SwarmAgents] : n \in 0..MaxSwarmAgents}

(* ---------------------------- specifications --------------------------- *)

(* A task processor reports on a task it holds: one that is assigned or    *)
(* running.                                                                *)
Held(t) == HasTask(State, t) /\ tasks[t].status \in {"assigned", "running"}

(* The task lifecycle: every entry point of the scheduler, and task        *)
(* processors that report every status on the tasks they hold.             *)
Next ==
  \/ Tick
  \/ CreateAgent(PlainAgent)
  \/ \E config \in PlainTasks : Len(tasks) < MaxTasks /\ SubmitTask(config)
  \/ \E t \in TaskIds : ScheduleTask(t)
  \/ \E t \in TaskIds, status \in UpdateStatuses : Held(t) /\ UpdateTaskStatus(t, status)
  \/ \E a \in AgentIds, status \in AgentStatuses : AgentStatusChanged(a, status)
  \/ CheckPendingTasks

Spec == Init /\ [][Next]_vars

(* Dependency chains of up to MaxChain tasks, with callers that report any *)
(* outcome on any task at any time.  Of the statuses updateTaskStatus      *)
(* tells apart, completed and failed are reported; busy stands for every   *)
(* agent status that is not idle.                                          *)
NextDeps ==
  \/ CreateAgent(PlainAgent)
  \/ \E config \in PlainTasks : Len(tasks) < MaxChain /\ SubmitTask(config)
  \/ \E t \in TaskIds : ScheduleTask(t)
  \/ \E t \in TaskIds, status \in {"completed", "failed"} : UpdateTaskStatus(t, status)
  \/ \E a \in AgentIds, status \in {"idle", "busy"} : AgentStatusChanged(a, status)
  \/ CheckPendingTasks

SpecDeps == Init /\ [][NextDeps]_vars

(* Matching: agents of several priorities and capabilities. *)
NextMatch ==
  \/ Tick
  \/ \E config \in MatchAgents : CreateAgent(config)
  \/ \E config \in MatchTasks : Len(tasks) < MaxTasks /\ SubmitTask(config)
  \/ \E t \in TaskIds : ScheduleTask(t)
  \/ \E t \in TaskIds : UpdateTaskStatus(t, "completed")
  \/ CheckPendingTasks

SpecMatch == Init /\ [][NextMatch]_vars

(* Swarms: rosters, swarm-scoped agents and tasks. *)
NextSwarm ==
  \/ \E sw \in RosterSwarmIds, specs \in SwarmRosters : CreateSwarm(sw, specs, <<>>)
  \/ \E config \in SwarmAgents : CreateAgent(config)
  \/ \E config \in SwarmTasks : Len(tasks) < MaxTasks /\ SubmitTask(config)
  \/ \E t \in TaskIds : UpdateTaskStatus(t, "completed")
  \/ \E a \in AgentIds : AgentStatusChanged(a, "idle")

SpecSwarm == Init /\ [][NextSwarm]_vars

(* The two services together: agents registered through AgentService. *)
NextAgents ==
  \/ \E sw \in RosterSwarmIds : CreateSwarm(sw, <<>>, <<>>)
  \/ \E config \in SwarmAgents : AsCreateAgent(config)
  \/ \E config \in SwarmTasks : Len(tasks) < MaxTasks /\ SubmitTask(config)
  \/ \E a \in AgentIds, t \in TaskIds : ExecuteTaskFinish(a, t)
  \/ \E a \in AgentIds, update \in {<<>>, <<"idle">>} : UpdateAgent(a, update)
  \/ \E a \in AgentIds : DeleteAgent(a)
  \/ \E t \in TaskIds : UpdateTaskStatus(t, "completed")

SpecAgents == Init /\ [][NextAgents]_vars

(* Bookkeeping: the lifecycle with callers that report any status on any  *)
(* task, keeping memory, counters and timestamps.                          *)
NextRecords ==
  \/ CreateAgent(PlainAgent)
  \/ \E config \in PlainTasks : Len(tasks) < MaxTasks /\ SubmitTask(config)
  \/ \E t \in TaskIds : ScheduleTask(t)
  \/ \E t \in TaskIds, status \in UpdateStatuses : pushes < MaxPushes /\ UpdateTaskStatus(t, status)
  \/ \E a \in AgentIds : AgentStatusChanged(a, "idle")
  \/ CheckPendingTasks

SpecRecords == InitRecording /\ [][NextRecords]_vars

(* The event log: the lifecycle of SpecRecords with the published events   *)
(* and the status writes kept, until MaxEvents events are published.       *)
NextEvents ==
  \/ CreateAgent(PlainAgent)
  \/ \E config \in PlainTasks : Len(tasks) < MaxTasks /\ Len(published) < MaxEvents /\ SubmitTask(config)
  \/ \E t \in TaskIds : Len(published) < MaxEvents /\ ScheduleTask(t)
  \/ \E t \in TaskIds, status \in UpdateStatuses : Len(published) < MaxEvents /\ UpdateTaskStatus(t, status)
  \/ \E a \in AgentIds : Len(published) < MaxEvents /\ AgentStatusChanged(a, "idle")
  \/ Len(published) < MaxEvents /\ CheckPendingTasks

SpecEvents == InitLogging /\ [][NextEvents]_vars

(* Shared memory: swarms created with or without an initial memory, and   *)
(* updateSwarmMemory calls with any patch on any swarm id.                 *)
NextSharedMemory ==
  \/ \E sw \in SwarmIds, initial \in {<<>>, [k \in {"k1"} |-> 1]} : CreateSwarm(sw, <<>>, initial)
  \/ \E sw \in SwarmIds, updates \in Memories : Len(patches) < MaxPatches /\ UpdateSwarmMemory(sw, updates)

SpecSharedMemory == Init /\ [][NextSharedMemory]_vars

(* Registration: agents registered with either service under the id of a  *)
(* swarm that exists, of one that does not, or under none.                 *)
RegisteredAgents == [priority : {<<>>}, capabilities : {{}}, swarmId : {0} \cup SwarmIds]

NextRegister ==
  \/ \E sw \in SwarmIds : CreateSwarm(sw, <<>>, <<>>)
  \/ \E config \in RegisteredAgents : CreateAgent(config)
  \/ \E config \in RegisteredAgents : AsCreateAgent(config)
  \/ \E a \in AgentIds : DeleteAgent(a)

SpecRegister == Init /\ [][NextRegister]_vars

(* Messages: two agents, each registered directly with SwarmService or     *)
(* through AgentService, that write to each other.                         *)
NextMessages ==
  \/ CreateAgent(PlainAgent)
  \/ AsCreateAgent([PlainAgent EXCEPT !.swarmId = 1])
  \/ \E a \in AgentIds : DeleteAgent(a)
  \/ \E from, to \in AgentIds : from # to /\ Len(sent[to]) < MaxMessages /\ SendAgentMessage(from, to)

SpecMessages == Init /\ [][NextMessages]_vars

(* Subtasks: up to MaxChain tasks, submitted or made as subtasks of one   *)
(* that exists, with agents that come, complete and go idle.               *)
SubtaskConfigs == [priority : {<<>>, <<3>>}, swarmId : {0}, dependencies : {{}}, requiredCapabilities : {<<>>}]

NextSubtasks ==
  \/ CreateAgent(PlainAgent)
  \/ Len(tasks) < MaxChain /\ SubmitTask(PlainTask)
  \/ \E parent \in TaskIds, config \in SubtaskConfigs : Len(tasks) < MaxChain /\ CreateSubtask(parent, config)
  \/ \E t \in TaskIds : Held(t) /\ UpdateTaskStatus(t, "completed")
  \/ \E a \in AgentIds : AgentStatusChanged(a, "idle")

SpecSubtasks == Init /\ [][NextSubtasks]_vars

(* The sweep: up to MaxChain tasks of two priorities, with or without a    *)
(* swarm and a dependency, pile up while no agent can take them; agents    *)
(* register, complete their tasks and are reported idle, and sweeps run.   *)
SweepTasks == [priority : {<<0>>, <<8>>}, swarmId : {0} \cup RosterSwarmIds, dependencies : {{}, {MaxChain}}, requiredCapabilities : {<<>>}]

NextSweep ==
  \/ \E config \in SwarmAgents : CreateAgent(config)
  \/ \E config \in SweepTasks : Len(tasks) < MaxChain /\ SubmitTask(config)
  \/ \E t \in TaskIds : Held(t) /\ UpdateTaskStatus(t, "completed")
  \/ \E a \in AgentIds : AgentStatusChanged(a, "idle")
  \/ CheckPendingTasks

SpecSweep == InitLogging /\ [][NextSweep]_vars

(* Overlapping passes: sweeps and completions may be started while other  *)
(* passes are suspended; the suspended passes resume in turn.  Agents      *)
(* register and tasks are submitted while no pass is in flight.            *)
NextPasses ==
  \/ passes = <<>> /\ CreateAgent(PlainAgent)
  \/ \E config \in PlainTasks : passes = <<>> /\ Len(tasks) < MaxTasks /\ SubmitTask(config)
  \/ StartPendingTasks
  \/ \E t \in TaskIds : Held(t) /\ CompleteTask(t)
  \/ ResumePass

SpecPasses == Init /\ [][NextPasses]_vars

(* Deletion: agents of AgentService execute what the scheduler assigns    *)
(* them and may be deleted at any time, also while an execution of theirs  *)
(* is under way; every execution ends in success or in an error.           *)
NextDelete ==
  \/ \E config \in SwarmAgents : AsCreateAgent(config)
  \/ \E config \in SwarmTasks : Len(tasks) < MaxTasks /\ SubmitTask(config)
  \/ \E a \in AgentIds, t \in TaskIds : ExecuteTaskFinish(a, t)
  \/ \E a \in AgentIds, t \in TaskIds : ExecuteTaskFail(a, t)
  \/ \E a \in AgentIds : DeleteAgent(a)

SpecDelete == Init /\ [][NextDelete]_vars

(* Reporting back: agents of AgentService execute what the scheduler      *)
(* assigns them, and every execution ends, in success or in an error.      *)
(* Nobody else reports on a task.                                          *)
NextReport ==
  \/ \E config \in SwarmAgents : AsCreateAgent(config)
  \/ \E config \in SwarmTasks : Len(tasks) < MaxTasks /\ SubmitTask(config)
  \/ \E a \in AgentIds, t \in TaskIds : ExecuteTaskFinish(a, t)
  \/ \E a \in AgentIds, t \in TaskIds : ExecuteTaskFail(a, t)
  \/ \E a \in AgentIds, update \in {<<>>, <<"idle">>} : UpdateAgent(a, update)

SpecReport == Init /\ [][NextReport]_vars /\ WF_vars(\E a \in AgentIds, t \in TaskIds : ExecuteTaskFinish(a, t) \/ ExecuteTaskFail(a, t))

(* One agent, registered with either service, that works through up to     *)
(* MaxCompletions tasks one after the other; a task is reported completed  *)
(* once its execution, if any, has finished.                               *)
NextMemory ==
  \/ Len(agents) = 0 /\ CreateAgent(PlainAgent)
  \/ Len(agents) = 0 /\ AsCreateAgent([PlainAgent EXCEPT !.swarmId = 1])
  \/ Len(agents) = 1 /\ Len(tasks) < MaxCompletions /\ (\A t \in 1..Len(tasks) : tasks[t].status = "completed") /\ SubmitTask(PlainTask)
  \/ \E t \in 1..Len(tasks) : ExecuteTaskFinish(1, t)
  \/ \E t \in 1..Len(tasks) : Held(t) /\ <<t, 1>> \notin executing /\ UpdateTaskStatus(t, "completed")

SpecMemory == InitRecording /\ [][NextMemory]_vars

Started == \A b \in Buses : initialized[b]

(* The channel: every process has started, with or without Redis; the      *)
(* buses of instance 1 publish, every bus with a subscriber connection     *)
(* receives, and one handler is subscribed here and there.                 *)
NextBus ==
  \/ \E i \in Instances, url \in {"none", "ok"} : Start(i, url)
  \/ \E b \in Buses, type \in EventTypes : Started /\ Subscribe(b, type, "h1")
  \/ \E kind \in {"bus", "svc"}, type \in EventTypes, outcome \in {"ok", "fail"} : Started /\ Publish(<<1, kind>>, type, outcome)
  \/ \E b \in Buses : Deliver(b)

SpecBus == Init /\ [][NextBus]_vars

(* One process without Redis: handlers come and go on its two emitters. *)
NextSubscribe ==
  \/ Start(1, "none")
  \/ \E kind \in {"bus", "svc"}, type \in EventTypes, fn \in Handlers : Subscribe(<<1, kind>>, type, fn)
  \/ \E r \in RegistrationIds : Unsubscribe(r)
  \/ \E kind \in {"bus", "svc"}, type \in EventTypes : Publish(<<1, kind>>, type, "ok")

SpecSubscribe == Init /\ [][NextSubscribe]_vars

(* ------------------------------- claims -------------------------------- *)

(* What the claims mean by blocked, ready and eligible, stated on the      *)
(* records and on the specs the callers gave.                              *)
Blocked(tk, t) == \E d \in tk[t].dependencies : d > Len(tk) \/ tk[d].status # "completed"

Ready(tk, t) == tk[t].status = "pending" /\ ~Blocked(tk, t)

Eligible(ag, tk, given, t, a) ==
  /\ ag[a].status = "idle"
  /\ tk[t].swarmId # 0 => ag[a].swarmId = tk[t].swarmId
  /\ given[t].requiredCapabilities # <<>> => given[t].requiredCapabilities[1] \subseteq ag[a].capabilities

InProgress(tk, t) == tk[t].status \in {"assigned", "running"}

Holders(tk, a) == {t \in 1..Len(tk) : InProgress(tk, t) /\ a \in Range(tk[t].assignedAgents)}

(* The priority an agent was registered with; 5 when none was given. *)
Registered(given, a) == IF given[a].priority = <<>> THEN DefaultPriority ELSE given[a].priority[1]

(* C1: no agent is the assigned agent of two tasks that are both assigned  *)
(* or running; and whenever scheduleTask returns {task, agent}, the agent  *)
(* is busy and no other assigned or running task lists it.                 *)
C1_AssignmentExclusive ==
  /\ \A a \in 1..Len(agents) : Cardinality(Holders(tasks, a)) <= 1
  /\ \A t \in 1..Len(tasks) :
       LET r == scheduleResult(State, t)
       IN r.agent # 0 => r.s.agents[r.agent].status = "busy" /\ Holders(r.s.tasks, r.agent) \subseteq {t}

(* C2: a task whose dependencies are not all completed is never assigned:  *)
(* scheduleTask returns null for it and changes nothing, and in every step *)
(* that leaves it blocked it has no agent and keeps status pending, unless *)
(* the step is an updateTaskStatus call that overwrites its own status.    *)
C2_BlockedStaysPending ==
  [][\A t \in TaskIds :
       /\ (HasTask(State, t) /\ tasks[t].status = "pending" /\ Blocked(tasks, t))
            => scheduleResult(State, t) = [s |-> State, agent |-> 0]
       /\ ((~HasTask(State, t) \/ tasks[t].status = "pending") /\ t <= Len(tasks') /\ Blocked(tasks', t))
            => /\ tasks'[t].assignedAgents = <<>>
               /\ tasks'[t].status # "assigned"
               /\ tasks'[t].status = "pending" \/ \E status \in UpdateStatuses : UpdateTaskStatus(t, status)]_vars

(* C2 witness: a chain 1 <- 2 <- 3 whose head is not completed, with an    *)
(* idle agent at hand and both dependents still pending.                   *)
C2_Witness ==
  /\ Len(tasks) = 3
  /\ tasks[2].dependencies = {1} /\ tasks[3].dependencies = {2}
  /\ tasks[1].status = "assigned"
  /\ tasks[2].status = "pending" /\ tasks[3].status = "pending"
  /\ \E a \in 1..Len(agents) : agents[a].status = "idle"

(* C3: assignedAgents has size 0 while the task is pending, failed or      *)
(* cancelled and size exactly 1 while it is assigned, running or completed.*)
C3_AssignedAgentsSize ==
  \A t \in 1..Len(tasks) :
    /\ tasks[t].status \in {"pending", "failed", "cancelled"} => Len(tasks[t].assignedAgents) = 0
    /\ tasks[t].status \in {"assigned", "running", "completed"} => Len(tasks[t].assignedAgents) = 1

(* C4: a second scheduleTask(id) right after the first returns null and    *)
(* changes neither the task nor any agent.                                 *)
C4_ScheduleTwice ==
  \A t \in TaskIds :
    LET first == scheduleResult(State, t)
        second == scheduleResult(first.s, t)
    IN second.agent = 0 /\ second.s = first.s

(* C5: no ready task is starved.  Every handler runs to completion and the *)
(* service starts no work of its own, so a ready task that is pending      *)
(* beside an eligible idle agent once a call has returned stays so until   *)
(* the next external call: the claim is that no call leaves such a state.  *)
C5_NoReadyTaskWaits ==
  \A t \in 1..Len(tasks) : Ready(tasks, t) => ~\E a \in 1..Len(agents) : Eligible(agents, tasks, taskSpecs, t, a)

C7_CapabilitiesRespected ==
  \A t \in 1..Len(tasks) : \A a \in Range(tasks[t].assignedAgents) :
    taskSpecs[t].requiredCapabilities # <<>> => taskSpecs[t].requiredCapabilities[1] \subseteq agents[a].capabilities

(* C8: the agent scheduleTask picks has the highest registered priority    *)
(* among the candidates, and the earliest lastActive among the candidates  *)
(* of that priority.                                                       *)
C8_HighestPriorityFirst ==
  \A t \in 1..Len(tasks) :
    LET r == scheduleResult(State, t)
    IN r.agent # 0 =>
         \A c \in 1..Len(agents) : Eligible(agents, tasks, [x \in 1..Len(tasks) |-> [requiredCapabilities |-> <<>>]], t, c) =>
           \/ Registered(agentSpecs, c) < Registered(agentSpecs, r.agent)
           \/ Registered(agentSpecs, c) = Registered(agentSpecs, r.agent) /\ agents[r.agent].lastActive <= agents[c].lastActive

(* C9: createSwarm with n agent specs leaves a ready swarm with            *)
(* agentCount = n whose roster holds exactly the n new agent ids, each     *)
(* once, and getAgents(swarmId) returns exactly those agents.              *)
C9_CreateSwarmRoster ==
  [][\A sw \in SwarmIds, specs \in SwarmRosters : CreateSwarm(sw, specs, <<>>) =>
       LET new == (Len(agents) + 1)..(Len(agents) + Len(specs))
       IN /\ swarms'[sw].status = "ready"
          /\ swarms'[sw].agentCount = Len(specs)
          /\ Len(swarms'[sw].agents) = Len(specs)
          /\ Range(swarms'[sw].agents) = new
          /\ swarms'[sw].agentCount = Cardinality(Range(swarms'[sw].agents))
          /\ getAgents([agents |-> agents'], sw) = new]_vars

(* C10: deleting an agent that holds an assigned or running task puts the  *)
(* task back to pending with no assigned agent, and the agent is gone from *)
(* the registry and from its swarm's roster.                               *)
C10_DeleteReleasesTask ==
  [][\A a \in AgentIds : DeleteAgent(a) =>
       /\ \A t \in Holders(tasks, a) : tasks'[t].status = "pending" /\ tasks'[t].assignedAgents = <<>>
       /\ asAgents'[a] = "absent"
       /\ \A sw \in SwarmIds : a \notin Range(swarms'[sw].agents)]_vars

(* What an agent has been through: its memory and its completion count. *)
Experience(ag, a) == <<ag[a].memory, ag[a].tasksCompleted>>

(* C11: updateTaskStatus(id, cancelled) on an assigned or running task     *)
(* leaves every agent of its assignedAgents idle with no current task,     *)
(* leaves the agents as a failure of the task would, and appends to no     *)
(* agent's memory.                                                         *)
C11_CancelReleasesAgents ==
  [][\A t \in TaskIds : (Held(t) /\ UpdateTaskStatus(t, "cancelled")) =>
       /\ \A a \in Range(tasks[t].assignedAgents) : agents'[a].status = "idle" /\ agents'[a].currentTask = 0
       /\ agents' = updateTaskStatus(State, t, "failed").agents
       /\ \A a \in 1..Len(agents) : agents'[a].memory = agents[a].memory]_vars

(* C12: updateTaskStatus(id, failed) sets failedAt, leaves every assigned  *)
(* agent idle with no current task and every agent's memory and            *)
(* tasksCompleted as they were; and a pending task stays pending, with no  *)
(* agent, through every step that leaves one of its dependencies failed,   *)
(* unless the step is an updateTaskStatus call on that very task.          *)
C12_FailureReleasesOnly ==
  [][/\ \A t \in TaskIds : UpdateTaskStatus(t, "failed") =>
          /\ tasks'[t].status = "failed" /\ tasks'[t].failedAt = <<now>>
          /\ \A a \in Range(tasks[t].assignedAgents) : agents'[a].status = "idle" /\ agents'[a].currentTask = 0
          /\ \A a \in 1..Len(agents) : Experience(agents', a) = Experience(agents, a)
          /\ \A B \in 1..Len(tasks) : (B # t /\ t \in tasks[B].dependencies /\ tasks[B].status = "pending") => tasks'[B] = tasks[B]
     /\ \A B \in 1..Len(tasks') :
          ((~HasTask(State, B) \/ tasks[B].status = "pending") /\ \E d \in tasks'[B].dependencies : d <= Len(tasks') /\ tasks'[d].status = "failed")
            => /\ tasks'[B].assignedAgents = <<>>
               /\ tasks'[B].status = "pending" \/ \E status \in UpdateStatuses : UpdateTaskStatus(B, status)]_vars

(* C12 witness: a task has failed after its agent had completed it once;   *)
(* the agent is idle with that one completion on record, and a task that   *)
(* depends on the failed one is pending beside it.                         *)
C12_Witness ==
  \E t, B \in 1..Len(tasks) : \E a \in 1..Len(agents) :
    /\ tasks[t].status = "failed" /\ tasks[t].failedAt # <<>> /\ tasks[t].assignedAgents = <<a>>
    /\ agents[a].status = "idle" /\ agents[a].currentTask = 0 /\ agents[a].tasksCompleted = 1 /\ Len(agents[a].memory) = 1
    /\ B # t /\ tasks[B].dependencies = {t} /\ tasks[B].status = "pending"

(* C13: each agent's memory, in either service's record of the agent,      *)
(* holds at most MemoryCap entries, and they are the last entries appended *)
(* to it, in the order they were appended.                                 *)
C13_MemoryKeepsLast ==
  \A a \in 1..Len(agents) :
    /\ Len(agents[a].memory) <= MemoryCap
    /\ agents[a].memory = LastN(appended[a], MemoryCap)
    /\ asAgents[a] # "absent" => Len(asMemory[a]) <= MemoryCap /\ asMemory[a] = LastN(asAppended[a], MemoryCap)

(* The registrations listening on bus b for events of the given type. *)
Listening(ls, b, type) == {l.id : l \in {x \in Range(ls[b]) : x.type = type}}

(* C14: a bus drops the copy of its own publish that the channel brings    *)
(* back, so every handler that was subscribed on the publishing bus under  *)
(* the event's type has been invoked exactly once for that publish, and no *)
(* registration of the publishing instance more than once.                 *)
C14_EchoSuppressed ==
  [][/\ \A b \in Buses : (Len(inbox'[b]) < Len(inbox[b]) /\ publishes[Head(inbox[b]).id].bus = b) => calls' = calls
     /\ \A e \in 1..Len(publishes') : \A r \in 1..Len(registered') :
          /\ r \in publishes'[e].listeners => calls'[<<r, e>>] = 1
          /\ registered'[r].bus[1] = publishes'[e].bus[1] => calls'[<<r, e>>] <= 1]_vars

(* C14 witness: a SwarmEventBus and a SwarmService have each published an  *)
(* event to a handler of theirs and have handled the copy that came back.  *)
C14_Witness ==
  \A kind \in {"bus", "svc"} : \E e \in 1..Len(publishes) :
    /\ publishes[e].bus[2] = kind /\ publishes[e].listeners # {}
    /\ <<publishes[e].bus, e>> \in handled

(* C15: a bus that takes from the channel an event published by another   *)
(* instance invokes each of its handlers of that type once, and puts       *)
(* nothing on the channel.                                                 *)
C15_RemoteEventsDelivered ==
  [][\A b \in Buses : (inbox[b] # <<>> /\ publishes[Head(inbox[b]).id].bus[1] # b[1] /\ Deliver(b)) =>
       LET event == Head(inbox[b])
       IN /\ \A r \in RegistrationIds : calls'[<<r, event.id>>] = calls[<<r, event.id>>] + (IF r \in Listening(listeners, b, event.type) THEN 1 ELSE 0)
          /\ inbox' = [inbox EXCEPT ![b] = Tail(@)]
          /\ publishes' = publishes]_vars

(* C16: publish raises nothing to its caller and has invoked every handler *)
(* subscribed under the type, whether the channel took the message, the    *)
(* Redis publish was rejected, or there is no channel.                     *)
C16_ChannelFailureIsLocal ==
  [][Len(publishes') > Len(publishes) =>
       LET e == Len(publishes')
       IN /\ raised' = FALSE
          /\ \A r \in Listening(listeners, publishes'[e].bus, publishes'[e].type) : calls'[<<r, e>>] = 1]_vars

(* C16 witness: a SwarmEventBus and a SwarmService have each had a Redis   *)
(* publish rejected, and the handler subscribed there was invoked.         *)
C16_Witness ==
  /\ ~raised
  /\ \A kind \in {"bus", "svc"} : \E e \in 1..Len(publishes) :
       /\ publishes[e].bus[2] = kind /\ publishes[e].sent /\ publishes[e].outcome = "fail"
       /\ publishes[e].listeners # {} /\ \A r \in publishes[e].listeners : calls[<<r, e>>] = 1

C18_UnsubscribeRemovesOne ==
  [][\A r \in RegistrationIds : Unsubscribe(r) =>
       LET Other(l) == l.id # r
       IN listeners' = [listeners EXCEPT ![registered[r].bus] = SelectSeq(@, Other)]]_vars

(* The entries of a log that are about task t, in the log's order. *)
About(log, t) ==
  LET IsAbout(e) == e.taskId = t
  IN SelectSeq(log, IsAbout)

(* C19: for every task, the events published about it are, in order, the  *)
(* announcements of its status writes in the order they were made, the     *)
(* first being task:created: no event of a later transition comes before   *)
(* the event of an earlier one.                                            *)
C19_EventsInTransitionOrder ==
  \A t \in 1..Len(tasks) :
    LET es == About(published, t)
        ts == About(transitions, t)
    IN /\ Len(es) = Len(ts)
       /\ \A i \in 1..Len(es) :
            /\ es[i].status = ts[i].status
            /\ (es[i].type = "task:created") = (i = 1)
            /\ es[i].type = "task:assigned" => es[i].status = "assigned"

(* C19 witness: one task has gone created, assigned, completed and another *)
(* created, assigned, failed, each with exactly these three events.        *)
C19_Witness ==
  \E t, u \in 1..Len(tasks) :
    /\ [i \in 1..Len(About(published, t)) |-> About(published, t)[i].type] = <<"task:created", "task:assigned", "task:updated">>
    /\ About(published, t)[3].status = "completed"
    /\ [i \in 1..Len(About(published, u)) |-> About(published, u)[i].type] = <<"task:created", "task:assigned", "task:updated">>
    /\ About(published, u)[3].status = "failed"

(* The updateSwarmMemory calls made on swarm sw whose patch has key k. *)
Writes(log, sw, k) == {i \in 1..Len(log) : log[i].swarmId = sw /\ k \in DOMAIN log[i].updates}

(* The keys swarm sw has been given, at creation or by a patch. *)
Given(init, log, sw) == DOMAIN init[sw] \cup UNION {DOMAIN log[i].updates : i \in {j \in 1..Len(log) : log[j].swarmId = sw}}

(* C20: an updateSwarmMemory call leaves the swarm's keys that are not in  *)
(* the patch and every other swarm as they were and returns the swarm's    *)
(* memory after the merge; and after it every swarm's sharedMemory has     *)
(* exactly the keys it was given, each with the value of the most recent   *)
(* patch on that swarm that had the key, or the initial value if none had. *)
C20_LastWriteWinsPerKey ==
  [][Len(patches') > Len(patches) =>
       LET call == patches'[Len(patches')]
       IN /\ \A k \in DOMAIN swarms[call.swarmId].sharedMemory \ DOMAIN call.updates :
               k \in DOMAIN swarms'[call.swarmId].sharedMemory /\ swarms'[call.swarmId].sharedMemory[k] = swarms[call.swarmId].sharedMemory[k]
          /\ \A sw \in SwarmIds \ {call.swarmId} : swarms'[sw] = swarms[sw]
          /\ returned' = swarms'[call.swarmId].sharedMemory
          /\ \A sw \in SwarmIds : swarms'[sw].status # "absent" =>
               /\ DOMAIN swarms'[sw].sharedMemory = Given(initialMemory', patches', sw)
               /\ \A k \in DOMAIN swarms'[sw].sharedMemory :
                    LET writes == Writes(patches', sw, k)
                    IN swarms'[sw].sharedMemory[k] = (IF writes = {} THEN initialMemory'[sw][k]
                                                      ELSE patches'[CHOOSE i \in writes : \A j \in writes : j <= i].updates[k])]_vars

(* C20 witness: a swarm created with k1 = 1 has had k1 overwritten by a    *)
(* patch and then k2 set by a later patch without k1, and holds both; the  *)
(* other swarm, patched in between, has its own memory.                    *)
C20_Witness ==
  /\ Len(patches) = 3
  /\ patches[1].swarmId = 1 /\ patches[1].updates = [k \in {"k1"} |-> 2]
  /\ patches[2].swarmId = 2 /\ patches[2].updates = [k \in {"k1"} |-> 1]
  /\ patches[3].swarmId = 1 /\ patches[3].updates = [k \in {"k2"} |-> 1]
  /\ initialMemory[1] = [k \in {"k1"} |-> 1]
  /\ swarms[1].sharedMemory = [k \in Keys |-> IF k = "k1" THEN 2 ELSE 1]
  /\ swarms[2].sharedMemory = [k \in {"k1"} |-> 1]
  /\ returned = swarms[1].sharedMemory

(* C21: createAgent with the id of an existing swarm appends the new       *)
(* agent's id, which the roster did not hold, to that swarm's roster and   *)
(* raises its agentCount by one, leaving the rest of the swarm and every   *)
(* other swarm as they were; with the id of no swarm, or with none, it     *)
(* changes no swarm record.  Either way the new agent is there, idle.      *)
C21_RegistrationJoinsRoster ==
  [][\A config \in RegisteredAgents : (CreateAgent(config) \/ AsCreateAgent(config)) =>
       LET id == Len(agents) + 1
           sw == config.swarmId
       IN /\ Len(agents') = id /\ agents'[id].status = "idle" /\ agents'[id].swarmId = sw
          /\ IF sw \in SwarmIds /\ swarms[sw].status # "absent"
             THEN /\ id \notin Range(swarms[sw].agents)
                  /\ swarms' = [swarms EXCEPT ![sw].agents = Append(@, id), ![sw].agentCount = @ + 1]
             ELSE swarms' = swarms]_vars

(* C21 witness: swarm 1 exists and holds, once, the one agent registered   *)
(* to it through AgentService; another agent was registered directly under *)
(* the id of swarm 2, which does not exist, and is idle.                   *)
C21_Witness ==
  /\ swarms[1].status = "ready" /\ swarms[2].status = "absent"
  /\ \E a, b \in 1..Len(agents) :
       /\ agents[a].swarmId = 1 /\ asAgents[a] = "idle" /\ swarms[1].agents = <<a>> /\ swarms[1].agentCount = 1
       /\ agents[b].swarmId = 2 /\ asAgents[b] = "absent" /\ agents[b].status = "idle"

(* C22: once sendAgentMessage has accepted a message for a recipient, the  *)
(* recipient's history ends with that message, and every agent's history   *)
(* holds at most MessageCap entries: the last ones accepted for it, in     *)
(* the order they were accepted.                                           *)
C22_HistoryKeepsLast ==
  [][\A to \in AgentIds : Len(sent'[to]) > Len(sent[to]) =>
       /\ messages'[to] # <<>> /\ messages'[to][Len(messages'[to])] = sent'[to][Len(sent'[to])]
       /\ \A a \in 1..Len(agents') : Len(messages'[a]) <= MessageCap /\ messages'[a] = LastN(sent'[a], MessageCap)]_vars

(* C23: createSubtask on an existing parent returns, without an error, a   *)
(* new task that is on the parent's subtasks list, has the parent's        *)
(* swarmId and the parent's priority unless the spec gives one, and is     *)
(* assigned to one agent at once when an eligible idle agent exists, and   *)
(* pending otherwise.                                                      *)
C23_SubtaskScheduled ==
  [][\A parent \in TaskIds, config \in SubtaskConfigs : (Len(tasks') > Len(tasks) /\ CreateSubtask(parent, config)) =>
       LET id == Len(tasks')
       IN /\ ~threw'
          /\ id \in Range(tasks'[parent].subtasks)
          /\ tasks'[id].swarmId = tasks[parent].swarmId
          /\ tasks'[id].priority = (IF config.priority = <<>> THEN tasks[parent].priority ELSE config.priority[1])
          /\ IF \E a \in 1..Len(agents) : Eligible(agents, tasks', taskSpecs', id, a)
             THEN tasks'[id].status = "assigned" /\ Len(tasks'[id].assignedAgents) = 1
             ELSE tasks'[id].status = "pending"]_vars

(* The changes of status the task state machine has. *)
TaskStateMachine ==
  {<<"pending", "assigned">>, <<"assigned", "running">>, <<"running", "completed">>, <<"assigned", "failed">>, <<"assigned", "cancelled">>, <<"running", "cancelled">>}

(* C24: every change of a task's status is one of the state machine, a     *)
(* task leaves pending only by being given an agent, scheduleTask returns  *)
(* null and changes nothing for a task that is not pending, and a          *)
(* completed, failed or cancelled task keeps its status.                   *)
C24_TaskStateMachine ==
  [][\A t \in 1..Len(tasks) :
       /\ tasks'[t].status # tasks[t].status =>
            /\ <<tasks[t].status, tasks'[t].status>> \in TaskStateMachine
            /\ tasks[t].status = "pending" => Len(tasks'[t].assignedAgents) = Len(tasks[t].assignedAgents) + 1
       /\ tasks[t].status # "pending" => scheduleResult(State, t) = [s |-> State, agent |-> 0]
       /\ tasks[t].status \in {"completed", "failed", "cancelled"} => tasks'[t].status = tasks[t].status]_vars

(* C25: in SwarmService's registry an agent is busy exactly when its       *)
(* currentTask names a task whose assignedAgents holds the agent.          *)
C25_BusyIffCurrentTask ==
  \A a \in 1..Len(agents) :
    agents[a].status = "busy" <=> (HasTask(State, agents[a].currentTask) /\ a \in Range(tasks[agents[a].currentTask].assignedAgents))

(* C26: a task that is assigned is eventually completed or failed in       *)
(* SwarmService, with the agents it was given idle there.                  *)
C26_AssignedIsReported ==
  \A t \in TaskIds :
    (HasTask(State, t) /\ tasks[t].status = "assigned")
      ~> (/\ HasTask(State, t) /\ tasks[t].status \in {"completed", "failed"}
          /\ \A a \in Range(tasks[t].assignedAgents) : agents[a].status = "idle")

(* A sweep: a call of checkPendingTasks, or the one the subscriber of      *)
(* agent:status_changed makes for an idle agent.                           *)
SweepStep == CheckPendingTasks \/ \E a \in AgentIds : AgentStatusChanged(a, "idle")

(* The tasks a step takes from pending to assigned. *)
AssignedByStep == {t \in 1..Len(tasks) : tasks[t].status = "pending" /\ tasks'[t].status = "assigned"}

C28_PassesDoNotDoubleAssign ==
  [][\A t \in 1..Len(tasks) : tasks[t].status # "pending" => tasks'[t].assignedAgents = tasks[t].assignedAgents]_vars

(* C29: an agent that AgentService has deleted stays deleted: getAgent     *)
(* finds no agent under its id in any later state, whatever executions of  *)
(* its tasks end after the deletion.                                       *)
C29_DeletedStaysDeleted ==
  [][\A a \in 1..Len(agents) : asAgents[a] = "absent" => asAgents'[a] = "absent"]_vars

(* C30: reporting the completion of a task that is completed already       *)
(* changes no agent's memory and no agent's tasksCompleted, and leaves     *)
(* busy every agent that is busy.                                          *)
C30_RepeatedCompletionIsNoOp ==
  [][\A t \in 1..Len(tasks) : (tasks[t].status = "completed" /\ UpdateTaskStatus(t, "completed")) =>
       \A a \in 1..Len(agents) :
         /\ Experience(agents', a) = Experience(agents, a)
         /\ agents[a].status = "busy" => agents'[a].status = "busy"]_vars
====
